---- MODULE Spec2Model ----
(***************************************************************************)
(* A model of collection/skipmap/skipmap_str.go: StringMap, a concurrent   *)
(* skip list keyed by strings.  Every goroutine is a thread of the model;  *)
(* every atomic access to shared memory (loadNext, storeNext, a flag read  *)
(* or write, storeVal, loadVal, Lock, Unlock, AddInt64) is one step.       *)
(***************************************************************************)
EXTENDS Integers, Sequences, FiniteSets, TLC

(* ------------------------------ bounds -------------------------------- *)

\* Height of the header's next array (the repository's maxLevel, scaled down).
maxLevel == 2
\* Keys are 1..NKeys; a key stands for a string, ordered as the integers are.
NKeys == 2

(* ------------------------------ constants ----------------------------- *)

\* Go's nil pointer.
nil == 0
\* The node NewString allocates: s.header.
header == 1
\* The nil interface value Load returns when the key is absent.
nilVal == 0
\* lFound, topLayer and highestLocked start at -1.
none == 0 - 1

Threads == {1, 2, 3}
Keys == 1..NKeys
Levels == 1..maxLevel
Layers == 0..(maxLevel - 1)

\* bitflag's two bits.
fullyLinked == "fullyLinked"
marked == "marked"

(* ------------------------------ state --------------------------------- *)

VARIABLES
  key,      \* key[n]: stringNode.key of node n
  val,      \* val[n]: the value behind stringNode.value
  next,     \* next[n]: stringNode.next, a function on 0..height-1
  mu,       \* mu[n]: stringNode.mu, 0 when unlocked, else the thread that locked it
  flags,    \* flags[n]: stringNode.flags, the set of bits that are set
  length,   \* StringMap.length
  th,       \* th[t]: the call thread t is running and its local variables
  prog,     \* prog[t]: the calls thread t still has to make
  hist,     \* hist[t]: the calls thread t has completed, with their results
  clock     \* the number of calls that have returned

heap == <<key, val, next, mu, flags, length>>
vars == <<key, val, next, mu, flags, length, th, prog, hist, clock>>

(* ------------------------------ helpers ------------------------------- *)

\* wyhash.Sum64String: an opaque hash; here odd keys collide on score 1.
hash(s) == s % 2

cmpstring(a, b) == IF a < b THEN 0 - 1 ELSE IF a = b THEN 0 ELSE 1

\* (n *stringNode) cmp(score, key)
cmp(n, score, k) ==
  IF hash(key[n]) > score THEN 1
  ELSE IF hash(key[n]) = score THEN cmpstring(key[n], k)
  ELSE 0 - 1

\* bitflag.Get(flag)
Get(n, flag) == flag \in flags[n]

\* bitflag.MGet(mask, expect)
MGet(n, mask, expect) == (flags[n] \cap mask) = expect

\* flags.MGet(fullyLinked|marked, fullyLinked)
Visible(n) == MGet(n, {fullyLinked, marked}, {fullyLinked})

\* randomLevel(): a height in 1..maxLevel.
randomLevel == Levels

NoOp == [op |-> "none", key |-> 0, val |-> 0, level |-> 0, after |-> 0]

\* The local variables of a call, as they are when no call is running.
Fresh ==
  [pc |-> "idle", op |-> NoOp, inv |-> 0,
   x |-> nil, i |-> 0,
   preds |-> [l \in Layers |-> nil], succs |-> [l \in Layers |-> nil],
   nd |-> nil, lFound |-> none, isMarked |-> FALSE, topLayer |-> none,
   layer |-> 0, highestLocked |-> none, prevPred |-> nil, valid |-> TRUE,
   nn |-> nil, ui |-> none, after |-> "none",
   lv |-> nilVal, visited |-> <<>>]

\* thread t moves on inside its call
Goto(t, r) == /\ th' = [th EXCEPT ![t] = r]
              /\ UNCHANGED <<prog, hist, clock>>

\* thread t's call, with locals me, returns (res, ok)
ReturnAs(t, me, res, ok) ==
  /\ th' = [th EXCEPT ![t] = Fresh]
  /\ hist' = [hist EXCEPT ![t] = Append(@,
               [op |-> me.op.op, key |-> me.op.key, arg |-> me.op.val,
                res |-> res, ok |-> ok, inv |-> me.inv, ret |-> clock + 1,
                visited |-> me.visited])]
  /\ clock' = clock + 1
  /\ UNCHANGED prog

Return(t, res, ok) == ReturnAs(t, th[t], res, ok)

\* the start of findNode, findNodeDelete and Load's search: x := s.header, i := maxLevel-1.
\* What an earlier attempt left in preds and succs is overwritten before it is read, and
\* the attempt's other locals are declared anew, so they are cleared here.
Search(me, pc) ==
  [me EXCEPT !.pc = pc, !.x = header, !.i = maxLevel - 1,
             !.preds = Fresh.preds, !.succs = Fresh.succs,
             !.layer = 0, !.valid = TRUE, !.highestLocked = none, !.prevPred = nil,
             !.nn = nil, !.ui = none, !.after = "none", !.lFound = none]

\* the search is over: its cursor is no longer read
Found(me) == [me EXCEPT !.x = nil, !.i = 0]

\* One iteration of the search loops: succ := x.loadNext(i), compared to the key.
\*   "right": succ is smaller, x moves to it;  "match": succ holds the key;
\*   "down": succ is bigger or nil.
LookAt(x, i, k) ==
  LET succ == next[x][i]
      c == IF succ = nil THEN 1 ELSE cmp(succ, hash(k), k)
  IN [succ |-> succ, way |-> IF c < 0 THEN "right" ELSE IF c = 0 THEN "match" ELSE "down"]

Look(me) == LookAt(me.x, me.i, me.op.key)

Record(me, succ) == [me EXCEPT !.preds[me.i] = me.x, !.succs[me.i] = succ]

(* ------------------------------ calls --------------------------------- *)

\* A thread starts its next call.
Invoke(t) ==
  /\ th[t].pc = "idle"
  /\ prog[t] # <<>>
  /\ \E o \in Head(prog[t]) :
       /\ o.after <= clock
       /\ LET me == [Fresh EXCEPT !.op = o, !.inv = clock]
          IN th' = [th EXCEPT ![t] =
               CASE o.op = "Store" -> Search(me, "S_find")
                 [] o.op \in {"Load", "LoadOrStore"} -> Search(me, "L_find")
                 [] o.op \in {"Delete", "LoadAndDelete"} -> Search(me, "D_find")
                 [] o.op = "Range" -> [me EXCEPT !.pc = "R_first"]
                 [] o.op = "Len" -> [me EXCEPT !.pc = "Len"]]
  /\ prog' = [prog EXCEPT ![t] = Tail(@)]
  /\ UNCHANGED <<heap, hist, clock>>

(* Load, lines 205-224 *)

\* Load's return; inside LoadOrStore, the call goes on to Store when ok is false.
LoadReturn(t, res, ok) ==
  IF th[t].op.op = "LoadOrStore"
  THEN IF ok THEN Return(t, res, TRUE)
       ELSE Goto(t, Search([th[t] EXCEPT !.nd = nil], "S_find"))
  ELSE Return(t, res, ok)

\* a mutant of LoadFind: the node is read once its mutex is free
LoadFindWaits(t) ==
  /\ th[t].pc = "L_find"
  /\ mu[th[t].x] = 0
  /\ LET me == th[t]
         lk == Look(me)
     IN IF lk.way = "right" THEN Goto(t, [me EXCEPT !.x = lk.succ])
        ELSE IF lk.way = "match"
        THEN Goto(t, [Found(me) EXCEPT !.pc = "L_flags", !.nd = lk.succ])
        ELSE IF me.i > 0 THEN Goto(t, [me EXCEPT !.i = me.i - 1])
        ELSE LoadReturn(t, nilVal, FALSE)
  /\ UNCHANGED heap

LoadFind(t) ==
  /\ th[t].pc = "L_find"
  /\ LET me == th[t]
         lk == Look(me)
     IN IF lk.way = "right" THEN Goto(t, [me EXCEPT !.x = lk.succ])
        ELSE IF lk.way = "match"
        THEN Goto(t, [Found(me) EXCEPT !.pc = "L_flags", !.nd = lk.succ])
        ELSE IF me.i > 0 THEN Goto(t, [me EXCEPT !.i = me.i - 1])
        ELSE LoadReturn(t, nilVal, FALSE)
  /\ UNCHANGED heap

LoadFlags(t) ==
  /\ th[t].pc = "L_flags"
  /\ IF Visible(th[t].nd) THEN Goto(t, [th[t] EXCEPT !.pc = "L_val"])
     ELSE LoadReturn(t, nilVal, FALSE)
  /\ UNCHANGED heap

LoadVal(t) ==
  /\ th[t].pc = "L_val"
  /\ LoadReturn(t, val[th[t].nd], TRUE)
  /\ UNCHANGED heap

\* Load(key) run from its first step to its last with no step of another thread between
RECURSIVE LoadFrom(_, _, _)
LoadFrom(x, i, k) ==
  LET lk == LookAt(x, i, k)
  IN IF lk.way = "right" THEN LoadFrom(lk.succ, i, k)
     ELSE IF lk.way = "match"
     THEN IF Visible(lk.succ) THEN <<val[lk.succ], TRUE>> ELSE <<nilVal, FALSE>>
     ELSE IF i > 0 THEN LoadFrom(x, i - 1, k)
     ELSE <<nilVal, FALSE>>

Load(k) == LoadFrom(header, maxLevel - 1, k)

\* Len() called when no other thread takes a step
LenNow == length

(* unlockString, lines 137-145: one step for each Unlock *)

\* the next layer below i whose predecessor differs from preds[i], or -1
NextUnlock(me, i) ==
  LET S == {j \in Layers : j < i /\ me.preds[j] # me.preds[i]}
  IN IF S = {} THEN none ELSE CHOOSE j \in S : \A k \in S : k <= j

\* where a call goes once unlockString has returned
AfterUnlock(me) ==
  CASE me.after = "S_retry" -> Search([me EXCEPT !.after = "none"], "S_find")
    [] me.after = "S_add" -> [Search(me, "S_add") EXCEPT !.x = nil, !.i = 0]
    [] me.after = "D_retry" -> Search([me EXCEPT !.after = "none"], "D_find")
    [] me.after = "D_sub" -> [Search(me, "D_sub") EXCEPT !.x = nil, !.i = 0]

\* unlockString(preds, highestLocked) is called: after says where the call goes on
StartUnlock(me, after) ==
  IF me.highestLocked = none THEN AfterUnlock([me EXCEPT !.after = after])
  ELSE [me EXCEPT !.pc = "unlock", !.ui = me.highestLocked, !.after = after]

\* preds[i].mu.Unlock(); unlocking an unlocked mutex is a fatal error
Unlock(t) ==
  /\ th[t].pc = "unlock"
  /\ LET me == th[t]
         p == me.preds[me.ui]
         j == NextUnlock(me, me.ui)
     IN IF mu[p] = 0
        THEN /\ Goto(t, [me EXCEPT !.pc = "fatal"])
             /\ UNCHANGED mu
        ELSE /\ mu' = [mu EXCEPT ![p] = 0]
             /\ Goto(t, IF j = none THEN AfterUnlock(me) ELSE [me EXCEPT !.ui = j])
  /\ UNCHANGED <<key, val, next, flags, length>>

(* Store, lines 148-200 *)

\* a mutant of StoreLoop: every layer's predecessor is locked, also the one locked last
StoreLoopLocksAll(me) ==
  IF me.valid /\ me.layer < me.op.level
  THEN [me EXCEPT !.pc = "S_lock"]
  ELSE IF ~me.valid THEN StartUnlock(me, "S_retry")
       ELSE [me EXCEPT !.pc = "S_splice", !.layer = 0]

\* a mutant of StoreLoop: a failed validation goes back to the search at once
StoreLoopKeepsLocks(me) ==
  IF me.valid /\ me.layer < me.op.level
  THEN IF me.preds[me.layer] # me.prevPred
       THEN [me EXCEPT !.pc = "S_lock"]
       ELSE [me EXCEPT !.pc = "S_valid"]
  ELSE IF ~me.valid THEN Search(me, "S_find")
       ELSE [me EXCEPT !.pc = "S_splice", !.layer = 0]

\* the locking loop's head: the next layer is locked, or validated under a lock
\* already held, or the loop is over
StoreLoop(me) ==
  IF me.valid /\ me.layer < me.op.level
  THEN IF me.preds[me.layer] # me.prevPred
       THEN [me EXCEPT !.pc = "S_lock"]
       ELSE [me EXCEPT !.pc = "S_valid"]
  ELSE IF ~me.valid THEN StartUnlock(me, "S_retry")
       ELSE [me EXCEPT !.pc = "S_splice", !.layer = 0]

StoreFind(t) ==
  /\ th[t].pc = "S_find"
  /\ LET me == th[t]
         lk == Look(me)
     IN IF lk.way = "right" THEN Goto(t, [me EXCEPT !.x = lk.succ])
        ELSE IF lk.way = "match"
        THEN Goto(t, [Search(me, "S_found") EXCEPT !.x = nil, !.i = 0, !.nd = lk.succ])
        ELSE IF me.i > 0 THEN Goto(t, [Record(me, lk.succ) EXCEPT !.i = me.i - 1])
        ELSE Goto(t, StoreLoop([Found(Record(me, lk.succ)) EXCEPT
                       !.nd = nil, !.layer = 0, !.valid = TRUE,
                       !.highestLocked = none, !.prevPred = nil]))
  /\ UNCHANGED heap

\* a mutant of StoreFound: on a marked node the call looks at the mark again, with no
\* new search
StoreFoundSpins(t) ==
  /\ th[t].pc = "S_found"
  /\ IF ~Get(th[t].nd, marked) THEN Goto(t, [th[t] EXCEPT !.pc = "S_storeVal"])
     ELSE Goto(t, th[t])
  /\ UNCHANGED heap

\* if !nodeFound.flags.Get(marked) ... else continue
StoreFound(t) ==
  /\ th[t].pc = "S_found"
  /\ IF ~Get(th[t].nd, marked) THEN Goto(t, [th[t] EXCEPT !.pc = "S_storeVal"])
     ELSE Goto(t, Search([th[t] EXCEPT !.nd = nil], "S_find"))
  /\ UNCHANGED heap

\* Store's return; inside LoadOrStore the call returns (nil, false)
StoreReturn(t) == Return(t, nilVal, FALSE)

\* a mutant of StoreVal: replacing a value counts as an insertion
StoreValCounts(t) ==
  /\ th[t].pc = "S_storeVal"
  /\ val' = [val EXCEPT ![th[t].nd] = th[t].op.val]
  /\ length' = length + 1
  /\ StoreReturn(t)
  /\ UNCHANGED <<key, next, mu, flags>>

\* nodeFound.storeVal(value); return
StoreVal(t) ==
  /\ th[t].pc = "S_storeVal"
  /\ val' = [val EXCEPT ![th[t].nd] = th[t].op.val]
  /\ StoreReturn(t)
  /\ UNCHANGED <<key, next, mu, flags, length>>

\* pred.mu.Lock(); highestLocked = layer; prevPred = pred
StoreLock(t) ==
  /\ th[t].pc = "S_lock"
  /\ LET me == th[t]
         pred == me.preds[me.layer]
     IN /\ mu[pred] = 0
        /\ mu' = [mu EXCEPT ![pred] = t]
        /\ Goto(t, [me EXCEPT !.pc = "S_valid", !.highestLocked = me.layer,
                              !.prevPred = pred])
  /\ UNCHANGED <<key, val, next, flags, length>>

\* a mutant of StoreValid: the predecessor's link is not compared to succ
StoreValidNoLink(t) ==
  /\ th[t].pc = "S_valid"
  /\ LET me == th[t]
         pred == me.preds[me.layer]
         succ == me.succs[me.layer]
         ok == ~Get(pred, marked) /\ (succ = nil \/ ~Get(succ, marked))
     IN Goto(t, StoreLoop([me EXCEPT !.valid = ok, !.layer = me.layer + 1]))
  /\ UNCHANGED heap

\* a mutant of StoreValid: nothing is validated under the lock
StoreValidAlways(t) ==
  /\ th[t].pc = "S_valid"
  /\ Goto(t, StoreLoop([th[t] EXCEPT !.valid = TRUE, !.layer = th[t].layer + 1]))
  /\ UNCHANGED heap

\* a mutant of StoreValid: the predecessor's mark is not looked at
StoreValidMarkedPred(t) ==
  /\ th[t].pc = "S_valid"
  /\ LET me == th[t]
         pred == me.preds[me.layer]
         succ == me.succs[me.layer]
         ok == /\ (succ = nil \/ ~Get(succ, marked))
               /\ next[pred][me.layer] = succ
     IN Goto(t, StoreLoop([me EXCEPT !.valid = ok, !.layer = me.layer + 1]))
  /\ UNCHANGED heap

\* valid = !pred.marked && (succ == nil || !succ.marked) && pred.loadNext(layer) == succ
StoreValid(t) ==
  /\ th[t].pc = "S_valid"
  /\ LET me == th[t]
         pred == me.preds[me.layer]
         succ == me.succs[me.layer]
         ok == /\ ~Get(pred, marked)
               /\ (succ = nil \/ ~Get(succ, marked))
               /\ next[pred][me.layer] = succ
     IN Goto(t, StoreLoop([me EXCEPT !.valid = ok, !.layer = me.layer + 1]))
  /\ UNCHANGED heap

\* nn := newStringNode(key, value, level) before the first layer; then for each layer
\* nn.next[layer] = succs[layer]; preds[layer].storeNext(layer, nn)
StoreSplice(t) ==
  /\ th[t].pc = "S_splice"
  /\ LET me == th[t]
         l == me.layer
         n == IF l = 0 THEN Len(key) + 1 ELSE me.nn
         last == l + 1 = me.op.level
         nx == IF l = 0
               THEN Append(next, [j \in 0..(me.op.level - 1) |-> IF j = 0 THEN me.succs[0] ELSE nil])
               ELSE [next EXCEPT ![n][l] = me.succs[l]]
     IN /\ next' = [nx EXCEPT ![me.preds[l]][l] = n]
        /\ IF l = 0
           THEN /\ key' = Append(key, me.op.key)
                /\ val' = Append(val, me.op.val)
                /\ mu' = Append(mu, 0)
                /\ flags' = Append(flags, {})
           ELSE UNCHANGED <<key, val, mu, flags>>
        /\ Goto(t, [me EXCEPT !.nn = n, !.layer = l + 1,
                              !.pc = IF last THEN "S_linked" ELSE "S_splice"])
  /\ UNCHANGED length

\* nn.flags.SetTrue(fullyLinked); unlockString(preds, highestLocked)
StoreLinked(t) ==
  /\ th[t].pc = "S_linked"
  /\ flags' = [flags EXCEPT ![th[t].nn] = @ \cup {fullyLinked}]
  /\ Goto(t, StartUnlock(th[t], "S_add"))
  /\ UNCHANGED <<key, val, next, mu, length>>

\* atomic.AddInt64(&s.length, 1); the loop then starts over: no return follows
StoreAdd(t) ==
  /\ th[t].pc = "S_add"
  /\ length' = length + 1
  /\ Goto(t, Search(th[t], "S_find"))
  /\ UNCHANGED <<key, val, next, mu, flags>>

(* Delete, lines 303-363, and LoadAndDelete, lines 228-288: the same code, but  *)
(* for what is returned                                                        *)

\* a mutant of DeleteLoop: every layer's predecessor is locked, also the one locked last
DeleteLoopLocksAll(me) ==
  IF me.valid /\ me.layer <= me.topLayer
  THEN [me EXCEPT !.pc = "D_lock"]
  ELSE IF ~me.valid THEN StartUnlock(me, "D_retry")
       ELSE [me EXCEPT !.pc = "D_unlink", !.layer = me.topLayer]

\* the physical deletion's locking loop
DeleteLoop(me) ==
  IF me.valid /\ me.layer <= me.topLayer
  THEN IF me.preds[me.layer] # me.prevPred
       THEN [me EXCEPT !.pc = "D_lock"]
       ELSE [me EXCEPT !.pc = "D_valid"]
  ELSE IF ~me.valid THEN StartUnlock(me, "D_retry")
       ELSE [me EXCEPT !.pc = "D_unlink", !.layer = me.topLayer]

\* "Accomplish the physical deletion": highestLocked = -1, valid = true, layer = 0
DeletePhysical(me) ==
  DeleteLoop([me EXCEPT !.layer = 0, !.valid = TRUE, !.highestLocked = none,
                        !.prevPred = nil])

\* findNodeDelete, lines 116-135, and what the caller does with lFound when no
\* shared memory is read for it
DeleteFind(t) ==
  /\ th[t].pc = "D_find"
  /\ LET me == th[t]
         lk == Look(me)
         rec == Record(me, lk.succ)
         fnd == IF me.lFound = none /\ lk.way = "match"
                THEN [rec EXCEPT !.lFound = me.i] ELSE rec
     IN IF lk.way = "right" THEN Goto(t, [me EXCEPT !.x = lk.succ])
        ELSE IF me.i > 0 THEN Goto(t, [fnd EXCEPT !.i = me.i - 1])
        ELSE IF fnd.isMarked THEN Goto(t, DeletePhysical(Found(fnd)))
        ELSE IF fnd.lFound = none THEN Return(t, nilVal, FALSE)
        ELSE Goto(t, [Found(fnd) EXCEPT !.pc = "D_check"])
  /\ UNCHANGED heap

\* a mutant of DeleteCheck: the value is loaded and the node is left as it is
DeleteCheckOnlyLoads(t) ==
  /\ th[t].pc = "D_check"
  /\ LET me == th[t]
         n == me.succs[me.lFound]
     IN IF Visible(n) /\ Cardinality(DOMAIN next[n]) - 1 = me.lFound
        THEN Return(t, val[n], TRUE)
        ELSE Return(t, nilVal, FALSE)
  /\ UNCHANGED heap

\* a mutant of DeleteCheck: a node that is not marked is taken, fully linked or not
DeleteCheckUnmarked(t) ==
  /\ th[t].pc = "D_check"
  /\ LET me == th[t]
         n == me.succs[me.lFound]
     IN IF ~Get(n, marked) /\ Cardinality(DOMAIN next[n]) - 1 = me.lFound
        THEN Goto(t, [me EXCEPT !.pc = "D_lockNode", !.nd = n, !.topLayer = me.lFound])
        ELSE Return(t, nilVal, FALSE)
  /\ UNCHANGED heap

\* succs[lFound].flags.MGet(fullyLinked|marked, fullyLinked) &&
\* (len(succs[lFound].next)-1) == lFound
DeleteCheck(t) ==
  /\ th[t].pc = "D_check"
  /\ LET me == th[t]
         n == me.succs[me.lFound]
     IN IF Visible(n) /\ Cardinality(DOMAIN next[n]) - 1 = me.lFound
        THEN Goto(t, [me EXCEPT !.pc = "D_lockNode", !.nd = n, !.topLayer = me.lFound])
        ELSE Return(t, nilVal, FALSE)
  /\ UNCHANGED heap

\* nodeToDelete.mu.Lock()
DeleteLockNode(t) ==
  /\ th[t].pc = "D_lockNode"
  /\ mu[th[t].nd] = 0
  /\ mu' = [mu EXCEPT ![th[t].nd] = t]
  /\ Goto(t, [th[t] EXCEPT !.pc = "D_mark"])
  /\ UNCHANGED <<key, val, next, flags, length>>

\* a mutant of DeleteMark: the node is marked without a look at its mark
DeleteMarkUnchecked(t) ==
  /\ th[t].pc = "D_mark"
  /\ flags' = [flags EXCEPT ![th[t].nd] = @ \cup {marked}]
  /\ Goto(t, DeletePhysical([th[t] EXCEPT !.isMarked = TRUE]))
  /\ UNCHANGED <<key, val, next, mu, length>>

\* if nodeToDelete.flags.Get(marked) { unlock; return } nodeToDelete.flags.SetTrue(marked)
DeleteMark(t) ==
  /\ th[t].pc = "D_mark"
  /\ LET me == th[t]
     IN IF Get(me.nd, marked)
        THEN /\ Goto(t, [me EXCEPT !.pc = "D_lost"])
             /\ UNCHANGED flags
        ELSE /\ flags' = [flags EXCEPT ![me.nd] = @ \cup {marked}]
             /\ Goto(t, DeletePhysical([me EXCEPT !.isMarked = TRUE]))
  /\ UNCHANGED <<key, val, next, mu, length>>

\* a mutant of DeleteLost: the call that lost the race decrements the counter too
DeleteLostCounts(t) ==
  /\ th[t].pc = "D_lost"
  /\ mu' = [mu EXCEPT ![th[t].nd] = 0]
  /\ length' = length - 1
  /\ Return(t, nilVal, FALSE)
  /\ UNCHANGED <<key, val, next, flags>>

\* a mutant of DeleteLost: the call that lost the race returns with the node locked
DeleteLostKeepsLock(t) ==
  /\ th[t].pc = "D_lost"
  /\ Return(t, nilVal, FALSE)
  /\ UNCHANGED heap

\* marked by another call: nodeToDelete.mu.Unlock(); return nil, false
DeleteLost(t) ==
  /\ th[t].pc = "D_lost"
  /\ mu' = [mu EXCEPT ![th[t].nd] = 0]
  /\ Return(t, nilVal, FALSE)
  /\ UNCHANGED <<key, val, next, flags, length>>

DeleteLock(t) ==
  /\ th[t].pc = "D_lock"
  /\ LET me == th[t]
         pred == me.preds[me.layer]
     IN /\ mu[pred] = 0
        /\ mu' = [mu EXCEPT ![pred] = t]
        /\ Goto(t, [me EXCEPT !.pc = "D_valid", !.highestLocked = me.layer,
                              !.prevPred = pred])
  /\ UNCHANGED <<key, val, next, flags, length>>

\* valid = !pred.flags.Get(marked) && pred.loadNext(layer) == succ
DeleteValid(t) ==
  /\ th[t].pc = "D_valid"
  /\ LET me == th[t]
         pred == me.preds[me.layer]
         succ == me.succs[me.layer]
         ok == ~Get(pred, marked) /\ next[pred][me.layer] = succ
     IN Goto(t, DeleteLoop([me EXCEPT !.valid = ok, !.layer = me.layer + 1]))
  /\ UNCHANGED heap

\* a mutant of DeleteUnlink: only the link of the bottom layer is rewritten
DeleteUnlinkBottom(t) ==
  /\ th[t].pc = "D_unlink"
  /\ LET me == th[t]
         l == me.layer
     IN /\ next' = IF l = 0 THEN [next EXCEPT ![me.preds[l]][l] = next[me.nd][l]] ELSE next
        /\ Goto(t, IF l = 0 THEN [me EXCEPT !.pc = "D_unlockNode"]
                   ELSE [me EXCEPT !.layer = l - 1])
  /\ UNCHANGED <<key, val, mu, flags, length>>

\* for i := topLayer; i >= 0; i-- { preds[i].storeNext(i, nodeToDelete.next[i]) }
DeleteUnlink(t) ==
  /\ th[t].pc = "D_unlink"
  /\ LET me == th[t]
         l == me.layer
     IN /\ next' = [next EXCEPT ![me.preds[l]][l] = next[me.nd][l]]
        /\ Goto(t, IF l = 0 THEN [me EXCEPT !.pc = "D_unlockNode"]
                   ELSE [me EXCEPT !.layer = l - 1])
  /\ UNCHANGED <<key, val, mu, flags, length>>

\* nodeToDelete.mu.Unlock(); unlockString(preds, highestLocked)
DeleteUnlockNode(t) ==
  /\ th[t].pc = "D_unlockNode"
  /\ mu' = [mu EXCEPT ![th[t].nd] = 0]
  /\ Goto(t, StartUnlock(th[t], "D_sub"))
  /\ UNCHANGED <<key, val, next, flags, length>>

\* atomic.AddInt64(&s.length, -1); Delete returns here
DeleteSub(t) ==
  /\ th[t].pc = "D_sub"
  /\ length' = length - 1
  /\ IF th[t].op.op = "Delete" THEN Return(t, nilVal, TRUE)
     ELSE Goto(t, [th[t] EXCEPT !.pc = "D_val"])
  /\ UNCHANGED <<key, val, next, mu, flags>>

\* return nodeToDelete.loadVal(), true
DeleteVal(t) ==
  /\ th[t].pc = "D_val"
  /\ Return(t, val[th[t].nd], TRUE)
  /\ UNCHANGED heap

(* Range, lines 372-384, and Len, lines 389-391 *)

\* x := s.header.loadNext(0)
RangeFirst(t) ==
  /\ th[t].pc = "R_first"
  /\ IF next[header][0] = nil THEN Return(t, nilVal, TRUE)
     ELSE Goto(t, [th[t] EXCEPT !.pc = "R_flags", !.x = next[header][0]])
  /\ UNCHANGED heap

\* if !x.flags.MGet(fullyLinked|marked, fullyLinked) { x = x.loadNext(0); continue }
RangeFlags(t) ==
  /\ th[t].pc = "R_flags"
  /\ Goto(t, [th[t] EXCEPT !.pc = IF Visible(th[t].x) THEN "R_visit" ELSE "R_next"])
  /\ UNCHANGED heap

\* a call f(k, v) of Range's visitor and its answer
Visit(k, v, more) == [key |-> k, val |-> v, more |-> more]

\* if !f(x.key, x.loadVal()) { break }: the visitor answers either way
RangeVisit(t) ==
  /\ th[t].pc = "R_visit"
  /\ LET me == th[t]
     IN \E more \in BOOLEAN :
          LET seen == [me EXCEPT !.visited = Append(@, Visit(key[me.x], val[me.x], more))]
          IN IF more THEN Goto(t, [seen EXCEPT !.pc = "R_next"])
             ELSE ReturnAs(t, seen, nilVal, FALSE)
  /\ UNCHANGED heap

\* a mutant of RangeNext: from a marked node the walk starts over at the header
RangeNextRestarts(t) ==
  /\ th[t].pc = "R_next"
  /\ LET n == IF Get(th[t].x, marked) THEN next[header][0] ELSE next[th[t].x][0]
     IN IF n = nil THEN Return(t, nilVal, TRUE)
        ELSE Goto(t, [th[t] EXCEPT !.pc = "R_flags", !.x = n])
  /\ UNCHANGED heap

\* x = x.loadNext(0); for x != nil
RangeNext(t) ==
  /\ th[t].pc = "R_next"
  /\ LET n == next[th[t].x][0]
     IN IF n = nil THEN Return(t, nilVal, TRUE)
        ELSE Goto(t, [th[t] EXCEPT !.pc = "R_flags", !.x = n])
  /\ UNCHANGED heap

RangeActions(t) == RangeFirst(t) \/ RangeFlags(t) \/ RangeVisit(t) \/ RangeNext(t)

\* return int(atomic.LoadInt64(&s.length))
LenStep(t) ==
  /\ th[t].pc = "Len"
  /\ Return(t, length, TRUE)
  /\ UNCHANGED heap

(* ------------------------------ specifications ------------------------ *)

\* NewString(): the header alone, fully linked, with maxLevel nil links
InitMap ==
  /\ key = <<0>>
  /\ val = <<nilVal>>
  /\ next = <<[l \in Layers |-> nil]>>
  /\ mu = <<0>>
  /\ flags = <<{fullyLinked}>>
  /\ length = 0
  /\ th = [t \in Threads |-> Fresh]
  /\ hist = [t \in Threads |-> <<>>]
  /\ clock = 0

\* the calls op(k, v), allowed once n calls have returned; a call that may insert a
\* node draws the node's height
Calls(op, k, v, n) ==
  {[op |-> op, key |-> k, val |-> v, level |-> l, after |-> n] :
     l \in IF op \in {"Store", "LoadOrStore"} THEN randomLevel ELSE {0}}


(* Store and Load alone: thread 1 stores a key while thread 2 stores a key and *)
(* then loads it.  Every Store of key k stores the value k.                    *)

InitStoreLoad ==
  /\ InitMap
  /\ \E k1 \in Keys, k2 \in Keys :
       prog = [t \in Threads |->
                 CASE t = 1 -> <<Calls("Store", k1, k1, 0)>>
                   [] t = 2 -> <<Calls("Store", k2, k2, 0), Calls("Load", k2, 0, 0)>>
                   [] OTHER -> <<>>]

LoadActions(t) == LoadFind(t) \/ LoadFlags(t) \/ LoadVal(t)

StoreActions(t) ==
  \/ StoreFind(t) \/ StoreFound(t) \/ StoreVal(t) \/ StoreLock(t) \/ StoreValid(t)
  \/ StoreSplice(t) \/ StoreLinked(t) \/ StoreAdd(t)

NextStoreLoad == \E t \in Threads : Invoke(t) \/ LoadActions(t) \/ StoreActions(t) \/ Unlock(t)

SpecStoreLoad == InitStoreLoad /\ [][NextStoreLoad]_vars

\* The completed calls.  A call's ret is its place among the returns, its inv the
\* number of calls that had returned when it was invoked: call a returned before
\* call b was invoked when a.ret <= b.inv.
Done == UNION {{<<t, i>> : i \in 1..Len(hist[t])} : t \in Threads}
Call(c) == hist[c[1]][c[2]]

\* C1: a Load(k) that starts after a Store(k, v) has returned yields (v, true),
\* when no call deletes k and every Store of k stores the same v.
C1_LoadAfterStore ==
  \A l \in Done, s \in Done :
    ( /\ Call(l).op = "Load" /\ Call(s).op = "Store"
      /\ Call(l).key = Call(s).key
      /\ Call(s).ret <= Call(l).inv )
    => (Call(l).ok /\ Call(l).res = Call(s).arg)


(* Deletion finality: thread 1 stores k, deletes it and loads it; thread 2     *)
(* stores or deletes some key at any time after thread 1's Store has returned. *)

\* the steps of Delete when no other call deletes: the node it locks is never marked
DeleteAlone(t) ==
  \/ DeleteFind(t) \/ DeleteCheck(t) \/ DeleteLockNode(t) \/ DeleteMark(t)
  \/ DeleteLock(t) \/ DeleteValid(t) \/ DeleteUnlink(t)
  \/ DeleteUnlockNode(t) \/ DeleteSub(t)

\* the steps of Delete and LoadAndDelete
DeleteActions(t) == DeleteAlone(t) \/ DeleteLost(t) \/ DeleteVal(t)

InitFinality ==
  /\ InitMap
  /\ \E k1 \in Keys, k2 \in Keys :
       prog = [t \in Threads |->
                 CASE t = 1 -> <<Calls("Store", k1, 1, 0),
                                 Calls("LoadAndDelete", k1, 0, 0) \cup Calls("Delete", k1, 0, 0),
                                 Calls("Load", k1, 0, 0)>>
                   [] t = 2 -> <<Calls("Store", k2, 2, 1) \cup Calls("LoadOrStore", k2, 2, 1)
                                   \cup Calls("LoadAndDelete", k2, 0, 1)>>
                   [] OTHER -> <<>>]

NextFinality ==
  \E t \in Threads :
    Invoke(t) \/ LoadActions(t) \/ StoreActions(t) \/ DeleteActions(t) \/ Unlock(t)

SpecFinality == InitFinality /\ [][NextFinality]_vars

Stores == {"Store", "LoadOrStore"}
Deletes == {"Delete", "LoadAndDelete"}

\* a Store or LoadOrStore of key k is running
Storing(k) == \E t \in Threads : th[t].op.op \in Stores /\ th[t].op.key = k

\* a Load l of the key that delete d removed, started after d returned
LoadAfterDelete(l, d) ==
  /\ Call(l).op = "Load" /\ Call(d).op \in Deletes /\ Call(d).ok
  /\ Call(l).key = Call(d).key
  /\ Call(d).ret <= Call(l).inv

\* every Store or LoadOrStore of the key of call d had returned when d returned
NoStoreSinceReturn(d) ==
  /\ ~Storing(Call(d).key)
  /\ \A s \in Done : (Call(s).op \in Stores /\ Call(s).key = Call(d).key)
                      => Call(s).ret < Call(d).ret

\* every Store or LoadOrStore of the key of call d had returned when d was invoked
NoStoreSinceInvocation(d) ==
  /\ ~Storing(Call(d).key)
  /\ \A s \in Done : (Call(s).op \in Stores /\ Call(s).key = Call(d).key)
                      => Call(s).ret <= Call(d).inv

\* C2 as stated: a Load(k) started after a delete of k returned finds nothing, when no
\* Store or LoadOrStore of k is in progress at, or starts after, the delete's return.
C2_FinalityFromReturn ==
  \A l \in Done, d \in Done :
    (LoadAfterDelete(l, d) /\ NoStoreSinceReturn(d))
    => (~Call(l).ok /\ Call(l).res = nilVal)

\* C2 amended: the same, when no Store or LoadOrStore of k is in progress at, or starts
\* after, the moment the deleting call was invoked.
C2_FinalityFromInvocation ==
  \A l \in Done, d \in Done :
    (LoadAfterDelete(l, d) /\ NoStoreSinceInvocation(d))
    => (~Call(l).ok /\ Call(l).res = nilVal)

\* a Load after a successful delete, with another Store of the key done before the delete
C2_Witness ==
  \E l \in Done, d \in Done, s \in Done :
    /\ LoadAfterDelete(l, d) /\ NoStoreSinceInvocation(d)
    /\ s[1] = 2 /\ Call(s).key = Call(d).key
    /\ ~Call(l).ok


\* no call is in progress and none is left to make
AllDone == \A t \in Threads : th[t].pc = "idle" /\ prog[t] = <<>>

\* no call is in progress
Quiescent == \A t \in Threads : th[t].pc = "idle"

(* Single-winner deletion: thread 1 stores k0 and k; then threads 1 and 2 call *)
(* LoadAndDelete(k).                                                           *)

InitWinner ==
  /\ InitMap
  /\ \E k0 \in Keys, k \in Keys :
       prog = [t \in Threads |->
                 CASE t = 1 -> <<Calls("Store", k0, 1, 0), Calls("Store", k, 2, 0),
                                 Calls("LoadAndDelete", k, 0, 2)>>
                   [] t = 2 -> <<Calls("LoadAndDelete", k, 0, 2)>>
                   [] OTHER -> <<>>]

NextWinner ==
  \E t \in Threads : Invoke(t) \/ StoreActions(t) \/ DeleteActions(t) \/ Unlock(t)

SpecWinner == InitWinner /\ [][NextWinner]_vars

Winners == {c \in Done : Call(c).op = "LoadAndDelete" /\ Call(c).ok}
Losers == {c \in Done : Call(c).op = "LoadAndDelete" /\ ~Call(c).ok}

\* the number of nodes that Store has linked in so far
Inserted == Len(key) - 1

\* C3: of the concurrent LoadAndDelete(k) calls on a present key exactly one returns
\* (value, true) and the others (nil, false); at no time have two calls marked a node,
\* and the counter is decremented once.
C3_SingleWinner ==
  /\ Cardinality({t \in Threads : th[t].isMarked}) <= 1
  /\ Cardinality(Winners) <= 1
  /\ \A c \in Winners : Call(c).res = 2
  /\ \A c \in Losers : Call(c).res = nilVal
  /\ AllDone => /\ Cardinality(Winners) = 1
                /\ Cardinality(Losers) = Cardinality(Done) - 3
                /\ Inserted - LenNow = 1
                /\ \A c \in Winners : Load(Call(c).key) = <<nilVal, FALSE>>

\* the winner has returned and the other call finds the node marked under its lock
C3_Witness == Cardinality(Winners) = 1 /\ \E t \in Threads : th[t].pc = "D_lost"

(* No lost update: the threads store pairwise distinct keys, one each.         *)

\* thread t stores key t; a thread without a key of its own makes no call
InitDisjoint ==
  /\ InitMap
  /\ prog = [t \in Threads |-> IF t \in Keys THEN <<Calls("Store", t, t, 0)>> ELSE <<>>]

NextDisjoint == \E t \in Threads : Invoke(t) \/ StoreActions(t) \/ Unlock(t)

SpecDisjoint == InitDisjoint /\ [][NextDisjoint]_vars

\* C4: once all the Stores of pairwise distinct keys have returned, Load finds every
\* key with its value and the counter is the number of keys stored.
C4_NoLostUpdate ==
  AllDone => /\ \A c \in Done : Load(Call(c).key) = <<Call(c).arg, TRUE>>
             /\ LenNow = Cardinality(Done)

\* two Stores of distinct keys ran at the same time, both have returned and the key
\* of the node linked in last comes first in the list
C4_Witness ==
  /\ AllDone /\ Cardinality(Done) >= 2 /\ Inserted >= 2
  /\ \E c \in Done, d \in Done : c # d /\ Call(c).inv = 0 /\ Call(d).inv = 0
  /\ next[header][0] = Len(key)


(* Any mix of Store, LoadOrStore, Delete and LoadAndDelete on any keys: thread  *)
(* 1 makes a call alone (a Store, or a Delete that finds nothing), then threads  *)
(* 1 and 2 make one call each, at the same time.                                *)

StoreCalls(k, v, n) == Calls("Store", k, v, n) \cup Calls("LoadOrStore", k, v, n)
DeleteCalls(k, n) == Calls("Delete", k, 0, n) \cup Calls("LoadAndDelete", k, 0, n)
AnyCalls(v, n) == UNION {StoreCalls(k, v, n) \cup DeleteCalls(k, n) : k \in Keys}

\* the call made alone: it leaves the map empty or with one key
FirstCalls == Calls("Delete", 1, 0, 0) \cup UNION {Calls("Store", k, 1, 0) : k \in Keys}

Init ==
  /\ InitMap
  /\ prog = [t \in Threads |->
               CASE t = 1 -> <<FirstCalls, AnyCalls(1, 1)>>
                 [] t = 2 -> <<AnyCalls(2, 1)>>
                 [] OTHER -> <<>>]

Next ==
  \E t \in Threads :
    Invoke(t) \/ LoadActions(t) \/ StoreActions(t) \/ DeleteActions(t) \/ Unlock(t)

Spec == Init /\ [][Next]_vars

\* C5: whenever no call is in progress, Len() is the number of keys Load finds.
C5_CountAtRest ==
  Quiescent => LenNow = Cardinality({k \in Keys : Load(k)[2]})

\* all calls have returned: two nodes were linked in, one was unlinked, one key is left
C5_Witness ==
  /\ AllDone /\ LenNow = 1 /\ Inserted >= 2
  /\ \E c \in Done : Call(c).op \in Deletes /\ Call(c).ok


(* Range against writers: thread 1 stores key 1 and then any key; then it      *)
(* makes two more calls, each a Store or a Delete of any key, while thread 2   *)
(* runs Range.                                                                 *)

WriteCalls(v, n) == UNION {Calls("Store", k, v, n) \cup Calls("Delete", k, 0, n) : k \in Keys}

InitRange ==
  /\ InitMap
  /\ prog = [t \in Threads |->
               CASE t = 1 -> <<Calls("Store", 1, 1, 0),
                               UNION {Calls("Store", k, 1, 0) : k \in Keys},
                               WriteCalls(2, 2), WriteCalls(3, 2)>>
                 [] t = 2 -> <<Calls("Range", 0, 0, 2)>>
                 [] OTHER -> <<>>]

\* thread 1 alone deletes, with Delete
NextRange ==
  \E t \in Threads :
    Invoke(t) \/ StoreActions(t) \/ DeleteAlone(t) \/ Unlock(t) \/ RangeActions(t)

SpecRange == InitRange /\ [][NextRange]_vars

\* key a comes before key b in (score, key) order
Before(a, b) == hash(a) < hash(b) \/ (hash(a) = hash(b) /\ cmpstring(a, b) < 0)

\* the visitor calls of every Range call, returned or running
Visits == {th[t].visited : t \in Threads} \cup {Call(c).visited : c \in Done}

\* C6: the keys a Range call passes to its visitor are strictly ascending in (score, key)
\* order, and a visitor call that answered false is the call's last.
C6_RangeOrder ==
  \A vs \in Visits : \A i \in 1..Len(vs), j \in 1..Len(vs) :
    i < j => (Before(vs[i].key, vs[j].key) /\ vs[i].more)

\* a Range call has visited two keys while the first of them was deleted and stored again
C6_Witness ==
  \E c \in Done, d \in Done, s \in Done :
    /\ Call(c).op = "Range" /\ Len(Call(c).visited) = 2
    /\ Call(d).op = "Delete" /\ Call(s).op = "Store" /\ Call(d).inv >= 2
    /\ Call(d).key = Call(c).visited[1].key /\ Call(s).key = Call(d).key
    /\ Call(d).ret < Call(s).ret /\ Call(s).ret < Call(c).ret
    /\ Call(c).inv < Call(d).ret

\* C7: a LoadOrStore(k, v) that loaded returns a stored value, and one that stored
\* returns the given value v with loaded = false.
C7_LoadOrStoreResult ==
  \A c \in Done :
    Call(c).op = "LoadOrStore"
    => IF Call(c).ok THEN Call(c).res # nilVal ELSE Call(c).res = Call(c).arg


(* Reads against a stopped writer: thread 1 stores a key k; then thread 1 makes *)
(* a Store or a Delete of any key while thread 2 makes a Load, a Store or a     *)
(* LoadAndDelete of k, or a Range.  Only thread 2 is scheduled fairly: thread 1 may    *)
(* stop for ever at any point, with the locks it holds.                         *)

Reader == 2

InitReads ==
  /\ InitMap
  /\ \E k \in Keys :
       prog = [t \in Threads |->
                 CASE t = 1 -> <<Calls("Store", k, 1, 0), WriteCalls(2, 1)>>
                   [] t = Reader -> <<Calls("Load", k, 0, 1) \cup Calls("Store", k, 3, 1)
                                      \cup Calls("LoadAndDelete", k, 0, 1)
                                      \cup Calls("Range", 0, 0, 1)>>
                   [] OTHER -> <<>>]

\* a step of thread t
Step(t) ==
  \/ Invoke(t) \/ LoadActions(t) \/ StoreActions(t) \/ DeleteActions(t) \/ Unlock(t)
  \/ RangeActions(t)

NextReads == \E t \in Threads : Step(t)

SpecReads == InitReads /\ [][NextReads]_vars /\ WF_vars(Step(Reader))

\* thread t is in Load, in Range, or in Store's search and existing-key path
Reading(t) ==
  th[t].pc \in {"L_find", "L_flags", "L_val", "R_first", "R_flags", "R_visit", "R_next",
                "S_find", "S_found", "S_storeVal"}

\* C8 amended: Load, Range and Store's search and existing-key path never wait on a
\* mutex and never lock one; Load and Range return, and so does a Store that has found
\* an unmarked node for its key, whatever the other threads do or fail to do.
C8_LockFreeReads ==
  /\ [](\A t \in Threads : Reading(t) => ENABLED Step(t))
  /\ [][(Reading(Reader) /\ th[Reader]' # th[Reader]) => mu' = mu]_vars
  /\ (th[Reader].op.op \in {"Load", "Range"} \/ th[Reader].pc = "S_storeVal")
       ~> (th[Reader].pc = "idle")

\* C8 as stated: a Store that has found a node for its key leaves the existing-key path
\* (it returns, or goes on to insert) whatever the other threads do or fail to do.
C8_StoreOnFoundKeyCompletes ==
  (th[Reader].pc = "S_found") ~> (th[Reader].pc \notin {"S_find", "S_found", "S_storeVal"})

\* a Load has returned while a deleter held the lock of the node it marked and the lock
\* of the header
C8_Witness ==
  /\ mu[header] \notin {0, Reader}
  /\ \E n \in DOMAIN mu : n # header /\ mu[n] = mu[header] /\ Get(n, marked)
  /\ \E c \in Done : c[1] = Reader /\ Call(c).op = "Load" /\ Call(c).inv >= 1


(* Three writers: thread 1 stores keys 1 and 2; then thread 1 calls             *)
(* LoadAndDelete(1), thread 2 a LoadAndDelete or a Store of any key and thread  *)
(* 3 Delete(2), at the same time.  Key 2 comes first in the list.               *)

InitLocks ==
  /\ InitMap
  /\ prog = [t \in Threads |->
               CASE t = 1 -> <<Calls("Store", 1, 1, 0), Calls("Store", 2, 1, 0),
                               Calls("LoadAndDelete", 1, 0, 2)>>
                 [] t = 2 -> <<UNION {Calls("LoadAndDelete", k, 0, 2) \cup Calls("Store", k, 2, 2)
                                      : k \in Keys}>>
                 [] OTHER -> <<Calls("Delete", 2, 0, 2)>>]

\* a step of a writer
Write(t) == Invoke(t) \/ StoreActions(t) \/ DeleteActions(t) \/ Unlock(t)

NextLocks == \E t \in Threads : Write(t)

SpecLocks == InitLocks /\ [][NextLocks]_vars

\* the node whose mutex thread t is about to lock, or nil
Wanted(t) ==
  CASE th[t].pc \in {"S_lock", "D_lock"} -> th[t].preds[th[t].layer]
    [] th[t].pc = "D_lockNode" -> th[t].nd
    [] OTHER -> nil

\* thread t is blocked in mu.Lock()
Blocked(t) == Wanted(t) # nil /\ mu[Wanted(t)] # 0

\* the thread that holds the mutex thread t is blocked on
Holder(t) == mu[Wanted(t)]

\* the threads reached from the threads in S by following holders, in at most n moves
RECURSIVE Holders(_, _)
Holders(S, n) ==
  IF n = 0 THEN {}
  ELSE LET H == {Holder(t) : t \in {u \in S : Blocked(u)}}
       IN H \cup Holders(H, n - 1)

\* C9 amended: no thread is blocked on a mutex held, directly or through other blocked
\* threads, by itself; and whenever a thread is blocked, a thread reached from it by
\* following the holders is able to take a step.
C9_NoDeadlock ==
  \A t \in Threads :
    Blocked(t) => /\ t \notin Holders({t}, Cardinality(Threads))
                  /\ \E u \in Holders({t}, Cardinality(Threads)) : ENABLED Write(u)

\* C9 as stated: whenever a thread is blocked on a mutex, the holder of that mutex is
\* able to take a step.
C9_HolderCanStep ==
  \A t \in Threads : Blocked(t) => ENABLED Write(Holder(t))

\* a thread is blocked on the mutex of a marked node whose deleter is searching again
C9_Witness ==
  \E t \in Threads :
    /\ Blocked(t) /\ Get(Wanted(t), marked)
    /\ th[Holder(t)].isMarked /\ th[Holder(t)].pc = "D_find"


(* Fair scheduling: every thread that can take a step takes one in the end, and *)
(* a thread in mu.Lock() gets the mutex if it is free again and again, as with  *)
(* sync.Mutex, which hands a mutex over to a goroutine that has waited long.    *)

\* thread t locks a mutex
Acquire(t) == StoreLock(t) \/ DeleteLock(t) \/ DeleteLockNode(t)

\* thread 1 stores a key k; then it deletes k, while thread 2 stores any key or deletes k
InitFair ==
  /\ InitMap
  /\ \E k \in Keys :
       prog = [t \in Threads |->
                 CASE t = 1 -> <<Calls("Store", k, 1, 0), DeleteCalls(k, 1)>>
                   [] t = 2 -> <<DeleteCalls(k, 1) \cup UNION {StoreCalls(j, 2, 1) : j \in Keys}>>
                   [] OTHER -> <<>>]

SpecFair ==
  /\ InitFair /\ [][Next]_vars
  /\ \A t \in Threads : WF_vars(Step(t)) /\ SF_vars(Acquire(t))

\* the same calls when the scheduler is weakly fair and the mutex is not fair: a Store
\* that locks a predecessor again and again can keep a deleter from ever locking it
SpecWeak == InitFair /\ [][Next]_vars /\ \A t \in Threads : WF_vars(Step(t))

\* C10: in the end every call there is to make has been made and has returned.
C10_Termination == <>AllDone

\* all calls have returned: a Store and a delete of one key ran at the same time, the
\* delete unlinked the key's node and the Store linked in a new one
C10_Witness ==
  /\ AllDone
  /\ \E c \in Done, d \in Done :
       /\ Call(c).op = "Store" /\ Call(d).op \in Deletes /\ Call(d).ok
       /\ Call(c).key = Call(d).key /\ Call(c).inv = 1 /\ Call(d).inv = 1
       /\ Load(Call(c).key) = <<Call(c).arg, TRUE>> /\ Inserted = 2


(* ------------------------------ the effects of a call ------------------ *)

\* the Store and LoadOrStore calls made so far, returned or running
StoreCallsMade ==
  Cardinality({c \in Done : Call(c).op \in Stores})
  + Cardinality({t \in Threads : th[t].op.op \in Stores})

\* C11: a Store call links in at most one node, so no more nodes have been linked in
\* than Store and LoadOrStore calls have been made.
C11_OneEffectPerStore == Inserted <= StoreCallsMade


(* ------------------------------ the structure -------------------------- *)

\* the nodes allocated so far, the header among them
Nodes == DOMAIN key

\* node n sorts before node m: the header sorts before every node with a key
Precedes(n, m) == m # header /\ (n = header \/ Before(key[n], key[m]))

\* C12: every link, of a linked or an unlinked node, leads to a node that sorts after
\* it, so every chain at every level is strictly ascending in (score, key) order; and no
\* two fully linked, unmarked nodes hold the same key.
C12_SortedLevels ==
  /\ \A n \in Nodes : \A l \in DOMAIN next[n] :
       next[n][l] # nil => Precedes(n, next[n][l])
  /\ \A n \in Nodes, m \in Nodes :
       (n # m /\ n # header /\ m # header /\ Visible(n) /\ Visible(m)) => key[n] # key[m]

\* an unlinked node still leads into a list that holds its key again, in a new node
C12_Witness ==
  \E n \in Nodes, m \in Nodes :
    /\ n # m /\ n # header /\ key[n] = key[m]
    /\ Get(n, marked) /\ Visible(m)
    /\ next[n][0] # nil /\ next[header][0] = m

\* node n is linked at layer l: some node's link of that layer leads to it
LinkedAt(n, l) == \E p \in Nodes : l \in DOMAIN next[p] /\ next[p][l] = n

\* bit b of node n is set in this step
Sets(n, b) == b \notin flags[n] /\ b \in flags'[n]

\* C13: no bit of a node is ever cleared; fullyLinked is set on a node linked at every
\* one of its layers; marked is set on a fully linked node, by one call at most, and
\* never on the header.
C13_FlagsMonotonic ==
  /\ [](~Get(header, marked))
  /\ [](\A t \in Threads, u \in Threads :
         (t # u /\ th[t].isMarked /\ th[u].isMarked) => th[t].nd # th[u].nd)
  /\ [][\A n \in Nodes :
         /\ flags[n] \subseteq flags'[n]
         /\ Sets(n, fullyLinked) => \A l \in DOMAIN next[n] : LinkedAt(n, l)
         /\ Sets(n, marked) => (Get(n, fullyLinked) /\ n # header)]_vars

\* a node of full height has been fully linked and then marked, and a node linked in
\* after it is fully linked
C13_Witness ==
  \E n \in Nodes, m \in Nodes :
    /\ header < n /\ n < m /\ Cardinality(DOMAIN next[n]) = maxLevel
    /\ flags[n] = {fullyLinked, marked} /\ flags[m] = {fullyLinked}

\* the nodes met on the way from node n along the links of layer l, in at most fuel moves
RECURSIVE ChainFrom(_, _, _)
ChainFrom(n, l, fuel) ==
  IF n = nil \/ fuel = 0 THEN {}
  ELSE {n} \cup ChainFrom(next[n][l], l, fuel - 1)

\* the nodes a search from the header can meet
Linked == UNION {ChainFrom(next[header][l], l, Len(key)) : l \in Layers}

\* a call has marked node n and has not yet rewritten all the links that lead to it
Removing(n) ==
  \E t \in Threads :
    /\ th[t].isMarked /\ th[t].nd = n
    /\ \/ th[t].pc \in {"D_find", "D_lock", "D_valid", "D_unlink"}
       \/ th[t].pc = "unlock" /\ th[t].after = "D_retry"

\* C14: once a delete has rewritten the links (and so when it returns, and ever after) the
\* node it removed is met by no search from the header, at any level; and when the last
\* link is rewritten every predecessor leads to the node's own successor at its level.
C14_Detached ==
  /\ \A n \in Nodes : (Get(n, marked) /\ ~Removing(n)) => n \notin Linked
  /\ \A t \in Threads :
       th[t].pc = "D_unlockNode"
       => \A l \in 0..th[t].topLayer : next[th[t].preds[l]][l] = next[th[t].nd][l]

\* a node of full height has been removed, its delete has
\* returned, and a node linked in later is in the list
C14_Witness ==
  \E n \in Nodes, c \in Done :
    /\ Get(n, marked) /\ ~Removing(n) /\ Cardinality(DOMAIN next[n]) = maxLevel
    /\ Call(c).op \in Deletes /\ Call(c).ok /\ Call(c).key = key[n]
    /\ \E m \in Linked : m > n

\* thread t is about to call Unlock on the mutex of this node, or nil
Unlocking(t) ==
  CASE th[t].pc = "unlock" -> th[t].preds[th[t].ui]
    [] th[t].pc \in {"D_lost", "D_unlockNode"} -> th[t].nd
    [] OTHER -> nil

\* C15: no thread is about to lock a mutex it holds; between marking a node and
\* unlinking it a deleter does not have that node among the predecessors it locks; every
\* Unlock of unlockString and of the deleter is applied to a mutex its caller holds, and
\* none has met a mutex that was not locked.
C15_NoReentrantNoStray ==
  \A t \in Threads :
    /\ Wanted(t) # nil => mu[Wanted(t)] # t
    /\ Unlocking(t) # nil => mu[Unlocking(t)] = t
    /\ th[t].pc # "fatal"
    /\ th[t].pc \in {"D_lock", "D_valid", "D_unlink", "D_unlockNode"}
       => \A l \in 0..th[t].topLayer : th[t].preds[l] # th[t].nd

\* a deleter that holds its node's mutex has found one predecessor on both layers, has
\* locked it once and validates the upper layer, while another thread waits for a mutex
C15_Witness ==
  \E t \in Threads, u \in Threads :
    /\ th[t].pc = "D_valid" /\ th[t].layer = 1 /\ th[t].highestLocked = 0
    /\ th[t].preds[0] = th[t].preds[1]
    /\ mu[th[t].nd] = t /\ mu[th[t].preds[0]] = t
    /\ u # t /\ Blocked(u)

(* Every kind of call: thread 1 stores a key and then makes any call on it, while *)
(* thread 2 makes one writing call.                                               *)

InitExits ==
  /\ InitMap
  /\ \E k \in Keys :
       prog = [t \in Threads |->
                 CASE t = 1 -> <<Calls("Store", k, 1, 0),
                                 StoreCalls(k, 3, 1) \cup DeleteCalls(k, 1)
                                   \cup Calls("Load", k, 0, 1) \cup Calls("Range", 0, 0, 1)>>
                   [] t = 2 -> <<AnyCalls(2, 1)>>
                   [] OTHER -> <<>>]

NextExits == \E t \in Threads : Step(t)

SpecExits == InitExits /\ [][NextExits]_vars

\* the nodes whose mutex thread t holds
Held(t) == {n \in Nodes : mu[n] = t}

\* C16: a thread that is in no call holds no mutex, so every call has returned with all
\* its locks released; Load and Range hold none at any time; a Store holds none while it
\* searches, on its first attempt or after a failed validation, and a deleter that
\* searches again holds the mutex of the node it marked and no other.
C16_LocksReleased ==
  \A t \in Threads :
    /\ th[t].pc = "idle" => Held(t) = {}
    /\ th[t].pc \in {"L_find", "L_flags", "L_val", "R_first", "R_flags", "R_visit", "R_next"}
       => Held(t) = {}
    /\ th[t].pc \in {"S_find", "S_found", "S_storeVal"} => Held(t) = {}
    /\ th[t].pc \in {"D_find", "D_check", "D_lockNode"}
       => Held(t) = IF th[t].isMarked THEN {th[t].nd} ELSE {}

\* a deleter whose validation failed searches again and holds the mutex of its marked
\* node alone, while the thread whose Store made it fail has returned and holds none
C16_Witness ==
  \E t \in Threads, c \in Done :
    /\ th[t].pc = "D_find" /\ th[t].isMarked /\ Held(t) = {th[t].nd}
    /\ c[1] # t /\ Call(c).op \in Stores /\ Call(c).inv > 0
    /\ th[c[1]].pc = "idle" /\ Held(c[1]) = {}

\* the node thread t's search has met is fully linked, unmarked and met at its top level
Eligible(t) ==
  LET n == th[t].succs[th[t].lFound]
  IN /\ fullyLinked \in flags[n] /\ marked \notin flags[n]
     /\ Cardinality(DOMAIN next[n]) - 1 = th[t].lFound

\* this step is a return of thread t's Delete or LoadAndDelete with "not found"
NotFound(t) ==
  /\ th[t].op.op \in Deletes
  /\ Len(hist'[t]) = Len(hist[t]) + 1
  /\ ~hist'[t][Len(hist'[t])].ok

\* C17: a Delete or LoadAndDelete that has not marked a node changes no link, no flag
\* and not the counter; one that returns not-found ((nil, false)) has marked none and
\* holds no mutex afterwards; and the call returns not-found when its search ends
\* without a node, when the node it met is not eligible, and when it finds the node
\* marked once it has locked it.
C17_NotFoundFrame ==
  [][\A t \in Threads :
       /\ (th[t].op.op \in Deletes /\ th'[t] # th[t] /\ ~th[t].isMarked /\ ~th'[t].isMarked)
          => UNCHANGED <<key, val, next, flags, length>>
       /\ NotFound(t)
          => /\ ~th[t].isMarked
             /\ hist'[t][Len(hist'[t])].res = nilVal
             /\ \A n \in DOMAIN mu' : mu'[n] # t
       /\ (th[t].pc = "D_find" /\ th'[t].pc = "idle") => NotFound(t)
       /\ (th[t].pc = "D_check" /\ th'[t] # th[t] /\ ~Eligible(t)) => NotFound(t)
       /\ (th[t].pc = "D_mark" /\ th'[t] # th[t] /\ Get(th[t].nd, marked))
          => th'[t].pc = "D_lost"
       /\ (th[t].pc = "D_lost" /\ th'[t] # th[t]) => NotFound(t)]_vars

\* a delete that ran against another call has returned not-found while the node of its
\* key is marked by a deleter that has not yet unlinked it; the counter still counts the
\* node and the returned call's thread holds no mutex
C17_Witness ==
  \E c \in Done, n \in Nodes :
    /\ Call(c).op \in Deletes /\ ~Call(c).ok /\ Call(c).inv > 0
    /\ key[n] = Call(c).key /\ Removing(n) /\ n \in Linked
    /\ \A m \in Nodes : mu[m] # c[1]
    /\ length = 1

(* Store against LoadAndDelete on one key: the key is absent, or thread 1 has   *)
(* stored it with the value 1; then thread 1 calls Store(k, 2) while thread 2   *)
(* calls LoadAndDelete(k).                                                      *)

InitPair ==
  /\ InitMap
  /\ \E k \in Keys :
       \/ prog = [t \in Threads |->
                    CASE t = 1 -> <<Calls("Store", k, 2, 0)>>
                      [] t = 2 -> <<Calls("LoadAndDelete", k, 0, 0)>>
                      [] OTHER -> <<>>]
       \/ prog = [t \in Threads |->
                    CASE t = 1 -> <<Calls("Store", k, 1, 0), Calls("Store", k, 2, 1)>>
                      [] t = 2 -> <<Calls("LoadAndDelete", k, 0, 1)>>
                      [] OTHER -> <<>>]

\* thread 2 alone deletes, with LoadAndDelete
NextPair ==
  \E t \in Threads :
    Invoke(t) \/ StoreActions(t) \/ DeleteAlone(t) \/ DeleteVal(t) \/ Unlock(t)

SpecPair == InitPair /\ [][NextPair]_vars

\* the key was stored, with the value 1, before the two calls started
Present == \E c \in Done : Call(c).op = "Store" /\ Call(c).arg = 1

\* C18: when Store(k, 2) and LoadAndDelete(k) have both returned, either LoadAndDelete
\* returned (2, true) and k is absent, or LoadAndDelete returned what it returns when it
\* runs first ((nil, false) if k was absent, (1, true) if it was present) and Load(k)
\* returns (2, true).
C18_PairLinearizable ==
  AllDone =>
    \A d \in Done :
      Call(d).op = "LoadAndDelete" =>
        \/ /\ Call(d).ok /\ Call(d).res = 2
           /\ Load(Call(d).key) = <<nilVal, FALSE>>
        \/ /\ Call(d).ok = Present
           /\ Call(d).res = (IF Present THEN 1 ELSE nilVal)
           /\ Load(Call(d).key) = <<2, TRUE>>

\* this step is thread t's, and t holds the mutex of node n, which is not marked
WritesLocked(t, n) == th'[t] # th[t] /\ mu[n] = t /\ ~Get(n, marked)

\* this step is thread t's Store filling in an upper link of the node it is linking in
WritesOwn(t, n) ==
  /\ th'[t] # th[t] /\ th[t].pc = "S_splice" /\ th[t].layer > 0
  /\ n = th[t].nn /\ flags[n] = {}

\* C19 as stated: every write to a link of the header or of a linked node is done by a
\* thread that holds that node's mutex, and the node is unmarked then.
C19_LinkWritesLocked ==
  [][\A n \in Nodes :
       ((n = header \/ n \in Linked) /\ next'[n] # next[n])
       => \E t \in Threads : WritesLocked(t, n)]_vars

\* C19 amended: a write to a link of an allocated node is done by a thread that holds
\* the node's mutex while the node is unmarked, or else it is a Store's write to an upper
\* link of its own new node, which is not yet fully linked and whose mutex is not
\* taken; the links of a marked node never change.
C19_LinkWritesLockedOrOwn ==
  [][\A n \in Nodes :
       /\ next'[n] # next[n]
          => \E t \in Threads : WritesLocked(t, n) \/ WritesOwn(t, n)
       /\ Get(n, marked) => next'[n] = next[n]]_vars

\* a Store has written a successor into the top link of its new node, which is linked
\* at the bottom layer and whose mutex nobody holds, while a deleter that has marked a
\* node has not yet rewritten the links that lead to it
C19_Witness ==
  \E t \in Threads, m \in Nodes :
    /\ th[t].pc = "S_linked" /\ th[t].op.level = maxLevel /\ th[t].nn \in Linked
    /\ next[th[t].nn][maxLevel - 1] # nil /\ mu[th[t].nn] = 0
    /\ Get(m, marked) /\ Removing(m)

\* the Store calls that have set fullyLinked on their node and not yet incremented
Adding ==
  {t \in Threads : th[t].pc = "S_add" \/ (th[t].pc = "unlock" /\ th[t].after = "S_add")}

\* the deleters that have unlinked their node and not yet decremented
Subtracting ==
  {t \in Threads : \/ th[t].pc \in {"D_unlockNode", "D_sub"}
                   \/ th[t].pc = "unlock" /\ th[t].after = "D_sub"}

\* C20 as stated: Len() is never negative and never more than the number of nodes that
\* are linked.
C20_LenWithinLinked == 0 <= LenNow /\ LenNow <= Cardinality(Linked)

\* C20 amended: Len() is short of zero by at most the number of Stores that have fully
\* linked a node and not yet incremented, and exceeds the number of linked nodes by at
\* most the number of deleters that have unlinked a node and not yet decremented.
C20_LenWithinPending ==
  /\ 0 - Cardinality(Adding) <= LenNow
  /\ LenNow <= Cardinality(Linked) + Cardinality(Subtracting)

\* Len() is negative: a deleter has removed and counted a node whose Store has not
\* yet incremented
C20_Witness == LenNow < 0 /\ Adding # {} /\ \E n \in Nodes : Get(n, marked) /\ n \notin Linked

====
